---- MODULE Spec2Model ----
(***************************************************************************)
(* Model of src/include/map_renderer.h: the MapRenderer bridge class, its  *)
(* factory MapRenderer_new, and the four control functions                 *)
(* MapRenderer_render, MapRenderer_setDebugFlags, MapRenderer_setCamera    *)
(* and MapRenderer_setStyleUrl.                                            *)
(*                                                                         *)
(* The rendering engine (mbgl::Map, mbgl::HeadlessFrontend, encodePNG) is  *)
(* an external collaborator.  Its state is modelled as the accumulated     *)
(* effect of exactly the calls the header issues to it: jumpTo stores the  *)
(* camera options it is given, setDebug stores the flags, loadURL stores   *)
(* the URL, and the Map constructor stores the options it is given.        *)
(***************************************************************************)
EXTENDS Integers, Sequences, FiniteSets, TLC

(* ----------------------------- bounds --------------------------------- *)

\* style URLs the caller may pass are Url(1) .. Url(NumStyles)
NumStyles == 2

\* debug bitmasks the caller may pass are 0 .. MaxDebug
MaxDebug == 2

\* heap slots for frontends and for maps
MaxObjects == 2

(* ----------------------------- inputs --------------------------------- *)

Url(i) == <<"url", i>>

StyleUrls == {Url(i) : i \in 1..NumStyles}

\* the URL of a style on which loadURL was never called
NoUrl == <<>>

DebugFlags == 0..MaxDebug

Ids == 1..MaxObjects

\* an empty (default or moved-from) unique_ptr
NULL == 0

\* (lat, lon, zoom, bearing, pitch) arguments; the second carries values
\* outside the engine's nominal ranges (lat > 90, lon > 180, zoom < 0,
\* bearing > 360, pitch > 60)
CameraInputs ==
    { [lat |-> 45, lon |-> 10,  zoom |-> 2,  bearing |-> 30,  pitch |-> 60],
      [lat |-> 91, lon |-> 181, zoom |-> -1, bearing |-> 370, pitch |-> 61] }

\* camera of a map on which jumpTo was never called
NoCamera == [lat |-> 0, lon |-> 0, zoom |-> 0, bearing |-> 0, pitch |-> 0]

\* (mapMode, width, height, pixelRatio, requiresApiKey) arguments
SurfaceInputs ==
    { [mapMode |-> "Static",     width |-> 512, height |-> 256, pixelRatio |-> 1,
       requiresApiKey |-> TRUE],
      [mapMode |-> "Continuous", width |-> 256, height |-> 512, pixelRatio |-> 2,
       requiresApiKey |-> FALSE] }

\* the parameters of MapRenderer_new (lines 36-52); the strings other than
\* defaultStyleUrl are opaque text that is only passed on
NewArgs ==
    { [mapMode |-> s.mapMode, width |-> s.width, height |-> s.height,
       pixelRatio |-> s.pixelRatio,
       cachePath |-> "cachePath", assetRoot |-> "assetRoot", apiKey |-> "apiKey",
       baseUrl |-> "baseUrl", uriSchemeAlias |-> "uriSchemeAlias",
       apiKeyParameterName |-> "apiKeyParameterName",
       sourceTemplate |-> "sourceTemplate", styleTemplate |-> "styleTemplate",
       spritesTemplate |-> "spritesTemplate", glyphsTemplate |-> "glyphsTemplate",
       tileTemplate |-> "tileTemplate",
       defaultStyleUrl |-> u, requiresApiKey |-> s.requiresApiKey] :
          s \in SurfaceInputs, u \in StyleUrls }

NoArgs == [mapMode |-> "none"]

VARIABLES
    pc,             \* position of the caller / of MapRenderer_new / of ~MapRenderer
    args,           \* parameters of the current MapRenderer_new call
    localFrontend,  \* local `frontend` of MapRenderer_new (line 58)
    localMap,       \* local `map` of MapRenderer_new (line 86)
    runLoop,        \* MapRenderer::runLoop: "none", "alive" or "destroyed"
    selfFrontend,   \* MapRenderer::frontend
    selfMap,        \* MapRenderer::map
    dtorIdx,        \* next member to destroy while in ~MapRenderer
    aliveFrontends, \* HeadlessFrontend objects currently allocated
    aliveMaps,      \* Map objects currently allocated
    frontendState,  \* state of the frontend created by this attempt
    mapState,       \* state of the map created by this attempt
    returned,       \* TRUE when the caller holds the unique_ptr<MapRenderer>
    outcome,        \* how the last operation ended
    thrownAt,       \* statement of MapRenderer_new that threw, if any
    styleArgs,      \* arguments of the latest two setStyleUrl calls on this instance
    debugArgs,      \* argument of the latest setDebugFlags call on this instance
    trail           \* the last control call on this instance, preceded by the
                    \* call before it when both are render or both setDebugFlags

vars == <<pc, args, localFrontend, localMap, runLoop, selfFrontend, selfMap,
          dtorIdx, aliveFrontends, aliveMaps, frontendState, mapState,
          returned, outcome, thrownAt, styleArgs, debugArgs, trail>>

NoFrontendState == [size |-> <<0, 0>>, pixelRatio |-> 0]

NoMapState == [frontend |-> NULL]

NoImage == [signature |-> "none"]

(* ------------------- option assembly (lines 56-84) --------------------- *)

\* mbgl::Size size = {width, height};
Size(a) == <<a.width, a.height>>

\* std::vector<DefaultStyle> styles{DefaultStyle(defaultStyleUrl, "Basic", 1)}
DefaultStyles(a) == << [url |-> a.defaultStyleUrl, name |-> "Basic", version |-> 1] >>

\* TileServerOptions().with...(...).withDefaultStyles(styles).withDefaultStyle("Basic")
TileServerOptions(a) ==
    [ baseURL             |-> a.baseUrl,
      uriSchemeAlias      |-> a.uriSchemeAlias,
      apiKeyParameterName |-> a.apiKeyParameterName,
      sourceTemplate      |-> <<a.sourceTemplate, "">>,
      styleTemplate       |-> <<a.styleTemplate, "maps">>,
      spritesTemplate     |-> <<a.spritesTemplate, "">>,
      glyphsTemplate      |-> <<a.glyphsTemplate, "fonts">>,
      tileTemplate        |-> <<a.tileTemplate, "tiles">>,
      defaultStyles       |-> DefaultStyles(a),
      defaultStyle        |-> "Basic",
      requiresApiKey      |-> a.requiresApiKey ]

\* resourceOptions.withCachePath().withAssetPath().withApiKey().withTileServerOptions(options)
ResourceOptions(a) ==
    [ cachePath         |-> a.cachePath,
      assetPath         |-> a.assetRoot,
      apiKey            |-> a.apiKey,
      tileServerOptions |-> TileServerOptions(a) ]

\* mapOptions.withMapMode(mapMode).withSize(size).withPixelRatio(pixelRatio)
MapOptions(a) == [ mapMode |-> a.mapMode, size |-> Size(a), pixelRatio |-> a.pixelRatio ]

(* ------------------------- engine objects ------------------------------ *)

\* std::make_unique<mbgl::HeadlessFrontend>(size, pixelRatio)
HeadlessFrontend(size, pixelRatio) == [ size |-> size, pixelRatio |-> pixelRatio ]

\* std::make_unique<mbgl::Map>(*frontend, nullObserver(), mapOptions, resourceOptions):
\* the map is bound to the frontend and keeps the options; the header issues
\* no loadURL, jumpTo or setDebug here, so style, camera and debug flags are
\* those of a map on which none of them was ever called.
Map(frontend, mapOptions, resourceOptions) ==
    [ frontend  |-> frontend,
      observer  |-> "nullObserver",
      options   |-> mapOptions,
      resources |-> resourceOptions,
      camera    |-> NoCamera,
      style     |-> NoUrl,
      loaded    |-> FALSE,
      debug     |-> 0 ]

\* variant: the frontend is held by a raw pointer, which unwinding does not delete
ReleaseLocalLeak(alive, ptr) == alive

\* what stack unwinding does to a local unique_ptr when a later statement of
\* MapRenderer_new throws: the object it owns is deleted
ReleaseLocal(alive, ptr) == alive \ {ptr}

RECURSIVE BitOr(_, _)
BitOr(a, b) ==
    IF a = 0 THEN b
    ELSE IF b = 0 THEN a
    ELSE (IF a % 2 = 1 \/ b % 2 = 1 THEN 1 ELSE 0) + 2 * BitOr(a \div 2, b \div 2)

\* variant: the new flags are added to the flags already set
setDebugOr(m, debugFlags) == [m EXCEPT !.debug = BitOr(@, debugFlags)]

\* self.map->setDebug(debugFlags)
setDebug(m, debugFlags) == [m EXCEPT !.debug = debugFlags]

\* variant: LatLng{lon, lat}
CameraOptionsSwapped(lat, lon, zoom, bearing, pitch) ==
    [lat |-> lon, lon |-> lat, zoom |-> zoom, bearing |-> bearing, pitch |-> pitch]

\* cameraOptions.withCenter(LatLng{lat, lon}).withZoom(zoom).withBearing(bearing).withPitch(pitch)
CameraOptions(lat, lon, zoom, bearing, pitch) ==
    [lat |-> lat, lon |-> lon, zoom |-> zoom, bearing |-> bearing, pitch |-> pitch]

\* self.map->jumpTo(cameraOptions)
jumpTo(m, cameraOptions) == [m EXCEPT !.camera = cameraOptions]

\* variant: a style is loaded only into a map that has none yet
loadURLOnce(m, styleUrl) ==
    IF m.style = NoUrl THEN [m EXCEPT !.style = styleUrl, !.loaded = FALSE] ELSE m

\* variant: loading a style also puts the camera back to its initial position
loadURLResetsCamera(m, styleUrl) ==
    [m EXCEPT !.style = styleUrl, !.loaded = FALSE, !.camera = NoCamera]

\* self.map->getStyle().loadURL(styleUrl)
loadURL(m, styleUrl) == [m EXCEPT !.style = styleUrl, !.loaded = FALSE]

\* self.frontend->render(*self.map).image, when the engine produces a frame:
\* the raster of the map's current camera, style and debug flags on the
\* frontend's surface
FrontendRender(f, m) ==
    [ width  |-> f.size[1] * f.pixelRatio,
      height |-> f.size[2] * f.pixelRatio,
      mode   |-> m.options.mapMode,
      camera |-> m.camera,
      style  |-> m.style,
      debug  |-> m.debug ]

\* encodePNG(image)
encodePNG(image) ==
    [ signature |-> "PNG", ihdr |-> <<image.width, image.height>>, idat |-> image ]

\* variant: the engine's exception is swallowed and an empty string returned
RenderReturnSwallow(f, m, ok) ==
    IF ok THEN [outcome |-> "image", value |-> encodePNG(FrontendRender(f, m))]
          ELSE [outcome |-> "image", value |-> NoImage]

\* MapRenderer_render's result: the encoded image, or the engine's exception
\* passed through (ok = FALSE) with nothing returned
RenderReturn(f, m, ok) ==
    IF ok THEN [outcome |-> "image", value |-> encodePNG(FrontendRender(f, m))]
          ELSE [outcome |-> "RenderError", value |-> NoImage]

\* variant: a finished frame clears the debug overlays
AfterRenderClearsDebug(m, ok) ==
    [m EXCEPT !.loaded = IF ok THEN TRUE ELSE @, !.debug = IF ok THEN 0 ELSE @]

\* the map after frontend->render: a frame is final only once the style's
\* resources are loaded; nothing else of the map is touched
AfterRender(m, ok) == [m EXCEPT !.loaded = IF ok THEN TRUE ELSE @]

\* variant: runLoop declared after frontend and map
MemberOrderRunLoopLast == <<"frontend", "map", "runLoop">>

\* declaration order of MapRenderer's data members (lines 29-32)
MemberOrder == <<"runLoop", "frontend", "map">>

\* members are destroyed in reverse order of declaration
DestroyOrder == [i \in 1..Len(MemberOrder) |-> MemberOrder[Len(MemberOrder) + 1 - i]]

\* the record of the last control call, kept together with the call before
\* it when that was the same function (render, setDebugFlags)
Push(t, e) ==
    IF t # <<>> /\ t[Len(t)].op = e.op /\ e.op \in {"render", "setDebugFlags"}
      THEN <<t[Len(t)], e>>
      ELSE <<e>>

\* the latest two arguments of a call
Keep2(t, e) == IF t = <<>> THEN <<e>> ELSE <<t[Len(t)], e>>

\* an object is allocated in the lowest free heap slot
FreshId(alive) == CHOOSE i \in Ids \ alive : \A j \in Ids \ alive : i <= j

(* ------------------------------ Init ----------------------------------- *)

Init ==
    /\ pc = "idle"
    /\ args = NoArgs
    /\ localFrontend = NULL
    /\ localMap = NULL
    /\ runLoop = "none"
    /\ selfFrontend = NULL
    /\ selfMap = NULL
    /\ dtorIdx = 0
    /\ aliveFrontends = {}
    /\ aliveMaps = {}
    /\ frontendState = NoFrontendState
    /\ mapState = NoMapState
    /\ returned = FALSE
    /\ outcome = "none"
    /\ thrownAt = "none"
    /\ styleArgs = <<>>
    /\ debugArgs = <<>>
    /\ trail = <<>>

(* ------------------------ MapRenderer_new ------------------------------ *)

\* lines 35-58: entry, size, and allocation of the frontend (may throw)
NewFrontend(a, ok) ==
    /\ pc = "idle"
    /\ Ids \ aliveFrontends # {}
    /\ args' = a
    /\ runLoop' = "none"
    /\ returned' = FALSE
    /\ styleArgs' = <<>>
    /\ debugArgs' = <<>>
    /\ trail' = <<>>
    /\ mapState' = NoMapState
    /\ thrownAt' = IF ok THEN "none" ELSE "line 58"
    /\ IF ok
         THEN /\ localFrontend' = FreshId(aliveFrontends)
              /\ aliveFrontends' = aliveFrontends \cup {FreshId(aliveFrontends)}
              /\ frontendState' = HeadlessFrontend(Size(a), a.pixelRatio)
              /\ pc' = "new_frontend"
              /\ outcome' = "pending"
         ELSE /\ localFrontend' = NULL
              /\ aliveFrontends' = aliveFrontends
              /\ frontendState' = NoFrontendState
              /\ pc' = "idle"
              /\ outcome' = "AllocationError"
    /\ UNCHANGED <<localMap, selfFrontend, selfMap, dtorIdx, aliveMaps>>

\* lines 60-86: option assembly and allocation of the map (may throw; the
\* local frontend is then released by unwinding)
NewMap(ok) ==
    /\ pc = "new_frontend"
    /\ Ids \ aliveMaps # {}
    /\ IF ok
         THEN /\ localMap' = FreshId(aliveMaps)
              /\ aliveMaps' = aliveMaps \cup {FreshId(aliveMaps)}
              /\ mapState' = Map(localFrontend, MapOptions(args), ResourceOptions(args))
              /\ pc' = "new_map"
              /\ UNCHANGED <<localFrontend, aliveFrontends, frontendState, outcome, thrownAt>>
         ELSE /\ aliveFrontends' = ReleaseLocal(aliveFrontends, localFrontend)
              /\ localFrontend' = NULL
              /\ frontendState' = NoFrontendState
              /\ pc' = "idle"
              /\ outcome' = "AllocationError"
              /\ thrownAt' = "line 86"
              /\ UNCHANGED <<localMap, aliveMaps, mapState>>
    /\ UNCHANGED <<args, runLoop, selfFrontend, selfMap, dtorIdx, returned,
                   styleArgs, debugArgs, trail>>

\* line 88 with lines 22-25: allocation and construction of the MapRenderer;
\* runLoop is constructed first, then the members take over the two objects.
\* If the allocation or the RunLoop constructor throws, map and frontend are
\* released (map first) and no run loop is left behind.
NewInstance(ok) ==
    /\ pc = "new_map"
    /\ IF ok
         THEN /\ runLoop' = "alive"
              /\ selfFrontend' = localFrontend
              /\ selfMap' = localMap
              /\ returned' = TRUE
              /\ outcome' = "ok"
              /\ pc' = "live"
              /\ UNCHANGED <<aliveFrontends, aliveMaps, frontendState, mapState, thrownAt>>
         ELSE /\ aliveMaps' = ReleaseLocal(aliveMaps, localMap)
              /\ aliveFrontends' = ReleaseLocal(aliveFrontends, localFrontend)
              /\ mapState' = NoMapState
              /\ frontendState' = NoFrontendState
              /\ outcome' = "AllocationError"
              /\ thrownAt' = "line 88"
              /\ pc' = "idle"
              /\ UNCHANGED <<runLoop, selfFrontend, selfMap, returned>>
    /\ localFrontend' = NULL
    /\ localMap' = NULL
    /\ UNCHANGED <<args, dtorIdx, styleArgs, debugArgs, trail>>

(* ------------------------ control functions ---------------------------- *)

\* self.frontend-> and self.map-> dereference the two members
Usable == pc = "live" /\ selfFrontend # NULL /\ selfMap # NULL

\* lines 91-94
MapRenderer_render(ok) ==
    /\ Usable
    /\ LET r == RenderReturn(frontendState, mapState, ok) IN
         /\ outcome' = r.outcome
         /\ trail' = Push(trail, [op |-> "render", arg |-> ok, pre |-> mapState,
                                  outcome |-> r.outcome, value |-> r.value])
    /\ mapState' = AfterRender(mapState, ok)
    /\ UNCHANGED <<pc, args, localFrontend, localMap, runLoop, selfFrontend,
                   selfMap, dtorIdx, aliveFrontends, aliveMaps, frontendState,
                   returned, thrownAt, styleArgs, debugArgs>>

\* lines 96-98
MapRenderer_setDebugFlags(debugFlags) ==
    /\ Usable
    /\ mapState' = setDebug(mapState, debugFlags)
    /\ outcome' = "ok"
    /\ debugArgs' = <<debugFlags>>
    /\ trail' = Push(trail, [op |-> "setDebugFlags", arg |-> debugFlags, pre |-> mapState,
                             outcome |-> "ok", value |-> NoImage])
    /\ UNCHANGED <<pc, args, localFrontend, localMap, runLoop, selfFrontend,
                   selfMap, dtorIdx, aliveFrontends, aliveMaps, frontendState,
                   returned, thrownAt, styleArgs>>

\* lines 100-108
MapRenderer_setCamera(lat, lon, zoom, bearing, pitch) ==
    /\ Usable
    /\ mapState' = jumpTo(mapState, CameraOptions(lat, lon, zoom, bearing, pitch))
    /\ outcome' = "ok"
    /\ trail' = Push(trail, [op |-> "setCamera",
                             arg |-> <<lat, lon, zoom, bearing, pitch>>,
                             pre |-> mapState, outcome |-> "ok", value |-> NoImage])
    /\ UNCHANGED <<pc, args, localFrontend, localMap, runLoop, selfFrontend,
                   selfMap, dtorIdx, aliveFrontends, aliveMaps, frontendState,
                   returned, thrownAt, styleArgs, debugArgs>>

\* lines 110-112
MapRenderer_setStyleUrl(styleUrl) ==
    /\ Usable
    /\ mapState' = loadURL(mapState, styleUrl)
    /\ outcome' = "ok"
    /\ styleArgs' = Keep2(styleArgs, styleUrl)
    /\ trail' = Push(trail, [op |-> "setStyleUrl", arg |-> styleUrl, pre |-> mapState,
                             outcome |-> "ok", value |-> NoImage])
    /\ UNCHANGED <<pc, args, localFrontend, localMap, runLoop, selfFrontend,
                   selfMap, dtorIdx, aliveFrontends, aliveMaps, frontendState,
                   returned, thrownAt, debugArgs>>

(* --------------------------- ~MapRenderer ------------------------------ *)

\* the caller releases the unique_ptr<MapRenderer>; line 26, the empty body
DestroyBegin ==
    /\ pc = "live"
    /\ pc' = "destroying"
    /\ dtorIdx' = 1
    /\ returned' = FALSE
    /\ trail' = <<>>
    /\ styleArgs' = <<>>
    /\ debugArgs' = <<>>
    /\ outcome' = "pending"
    /\ UNCHANGED <<thrownAt, args, localFrontend, localMap, runLoop, selfFrontend, selfMap,
                   aliveFrontends, aliveMaps, frontendState, mapState>>

\* destruction of the next data member, in DestroyOrder
DestroyMember ==
    /\ pc = "destroying"
    /\ LET member == DestroyOrder[dtorIdx] IN
         /\ IF member = "map"
              THEN /\ aliveMaps' = aliveMaps \ {selfMap}
                   /\ selfMap' = NULL
                   /\ mapState' = NoMapState
              ELSE UNCHANGED <<aliveMaps, selfMap, mapState>>
         /\ IF member = "frontend"
              THEN /\ aliveFrontends' = aliveFrontends \ {selfFrontend}
                   /\ selfFrontend' = NULL
                   /\ frontendState' = NoFrontendState
              ELSE UNCHANGED <<aliveFrontends, selfFrontend, frontendState>>
         /\ IF member = "runLoop"
              THEN runLoop' = "destroyed"
              ELSE UNCHANGED runLoop
    /\ IF dtorIdx = Len(DestroyOrder)
         THEN pc' = "idle" /\ dtorIdx' = 0 /\ outcome' = "destroyed"
         ELSE pc' = pc /\ dtorIdx' = dtorIdx + 1 /\ outcome' = outcome
    /\ UNCHANGED <<args, localFrontend, localMap, returned, thrownAt, styleArgs, debugArgs, trail>>

(* ------------------------------ Next ----------------------------------- *)

Next ==
    \/ \E a \in NewArgs, ok \in BOOLEAN : NewFrontend(a, ok)
    \/ \E ok \in BOOLEAN : NewMap(ok)
    \/ \E ok \in BOOLEAN : NewInstance(ok)
    \/ \E ok \in BOOLEAN : MapRenderer_render(ok)
    \/ \E f \in DebugFlags : MapRenderer_setDebugFlags(f)
    \/ \E c \in CameraInputs : MapRenderer_setCamera(c.lat, c.lon, c.zoom, c.bearing, c.pitch)
    \/ \E u \in StyleUrls : MapRenderer_setStyleUrl(u)
    \/ DestroyBegin
    \/ DestroyMember

Spec == Init /\ [][Next]_vars

(* ----------------------------- properties ------------------------------ *)

\* the record of the latest control call (only used where trail # <<>>)
Last == trail[Len(trail)]

CameraStyleDebug(m) == <<m.camera, m.style, m.debug>>

\* C1: when the instance is destroyed, map and frontend are released before
\* the run loop is torn down: whenever the run loop is gone, no map and no
\* frontend exists any more.
C1_ReleasedBeforeRunLoop ==
    runLoop = "destroyed" =>
        /\ aliveMaps = {} /\ aliveFrontends = {}
        /\ selfMap = NULL /\ selfFrontend = NULL

\* the destruction has released map and frontend and then the run loop
C1_Witness ==
    /\ pc = "idle" /\ outcome = "destroyed"
    /\ runLoop = "destroyed" /\ aliveMaps = {} /\ aliveFrontends = {}

\* C2: whenever the instance's frontend or map exists, also during
\* MapRenderer_new, the instance's run loop exists.
C2_RunLoopCoversFrontendAndMap ==
    (aliveFrontends # {} \/ aliveMaps # {}) => runLoop = "alive"

\* C3: a failed allocation in MapRenderer_new ends in AllocationError, hands
\* no instance to the caller and leaves nothing of the attempt alive.
C3_FailedNewLeavesNothing ==
    outcome = "AllocationError" =>
        /\ pc = "idle"
        /\ ~returned
        /\ runLoop # "alive"
        /\ aliveFrontends = {} /\ aliveMaps = {}
        /\ localFrontend = NULL /\ localMap = NULL
        /\ selfFrontend = NULL /\ selfMap = NULL

\* the map allocation failed after the frontend had been created
C3_Witness ==
    /\ outcome = "AllocationError" /\ thrownAt = "line 86"
    /\ aliveFrontends = {} /\ ~returned

\* C4: a render that no setStyleUrl call precedes uses the style of the
\* defaultStyleUrl the instance was constructed with.
C4_FirstRenderUsesDefaultStyle ==
    (pc = "live" /\ trail # <<>> /\ Last.op = "render" /\ styleArgs = <<>>) =>
        Last.pre.style = args.defaultStyleUrl

\* C5: a render ends either with a complete encoded image or with a
\* RenderError and nothing returned; after a RenderError the instance still
\* owns its frontend and map, camera, style and debug flags are as before
\* the call, and render and the three mutators can be called again.
C5_RenderAllOrNothing ==
    (pc = "live" /\ trail # <<>> /\ Last.op = "render") =>
        /\ Last.outcome \in {"image", "RenderError"}
        /\ Last.outcome = "image" =>
              /\ Last.value.signature = "PNG"
              /\ Last.value.ihdr = <<args.width * args.pixelRatio,
                                     args.height * args.pixelRatio>>
              /\ CameraStyleDebug(Last.value.idat) = CameraStyleDebug(Last.pre)
        /\ Last.outcome = "RenderError" =>
              /\ Last.value = NoImage
              /\ selfFrontend \in aliveFrontends /\ selfMap \in aliveMaps
              /\ mapState.frontend = selfFrontend
              /\ CameraStyleDebug(mapState) = CameraStyleDebug(Last.pre)
              /\ ENABLED MapRenderer_render(TRUE)
              /\ \A f \in DebugFlags : ENABLED MapRenderer_setDebugFlags(f)
              /\ \A u \in StyleUrls : ENABLED MapRenderer_setStyleUrl(u)
              /\ \A c \in CameraInputs :
                    ENABLED MapRenderer_setCamera(c.lat, c.lon, c.zoom, c.bearing, c.pitch)

\* a render has failed on an instance whose camera, style and flags were set
C5_Witness ==
    /\ pc = "live" /\ trail # <<>> /\ Last.op = "render"
    /\ Last.outcome = "RenderError"
    /\ mapState.camera # NoCamera /\ mapState.style # NoUrl /\ mapState.debug # 0

\* C6: with a fully loaded style, two successive renders with no mutator call
\* between them return identical images, and a render leaves camera, style
\* and debug flags as they were.
C6_RenderIdempotent ==
    /\ (pc = "live" /\ trail # <<>> /\ Last.op = "render") =>
          CameraStyleDebug(mapState) = CameraStyleDebug(Last.pre)
    /\ (pc = "live" /\ Len(trail) = 2 /\ trail[1].op = "render" /\ trail[2].op = "render"
          /\ trail[1].pre.loaded
          /\ trail[1].outcome = "image" /\ trail[2].outcome = "image") =>
          /\ trail[1].value = trail[2].value
          /\ CameraStyleDebug(trail[2].pre) = CameraStyleDebug(trail[1].pre)

\* two successive renders of a loaded style with debug overlays have returned
C6_Witness ==
    /\ pc = "live" /\ Len(trail) = 2
    /\ trail[1].op = "render" /\ trail[2].op = "render"
    /\ trail[1].pre.loaded /\ trail[1].pre.style # NoUrl /\ trail[1].pre.debug # 0
    /\ trail[1].outcome = "image" /\ trail[2].outcome = "image"

\* the first half of C7: the map's debug flags are the argument of the
\* latest setDebugFlags call
DebugFlagsAreLastArgument ==
    (pc = "live" /\ debugArgs # <<>>) => mapState.debug = debugArgs[1]

\* setDebugFlags(f) directly followed by setDebugFlags(0)
SetThenCleared ==
    /\ pc = "live" /\ Len(trail) = 2
    /\ trail[1].op = "setDebugFlags" /\ trail[2].op = "setDebugFlags"
    /\ trail[2].arg = 0

\* debug state and render output are those before the call recorded in trail[1]
SameAsBeforeSet ==
    /\ mapState.debug = trail[1].pre.debug
    /\ RenderReturn(frontendState, mapState, TRUE)
          = RenderReturn(frontendState, trail[1].pre, TRUE)

\* C7 as stated: the debug flags are the argument of the last setDebugFlags
\* call, and setDebugFlags(f) followed by setDebugFlags(0) leaves the debug
\* state and the render output as they were before setDebugFlags(f).
C7_Original ==
    /\ DebugFlagsAreLastArgument
    /\ SetThenCleared => SameAsBeforeSet

\* C7 amended: the debug flags are the argument of the last setDebugFlags
\* call; setDebugFlags(f) followed by setDebugFlags(0) leaves no flag set,
\* which is the debug state and the render output from before
\* setDebugFlags(f) whenever no flag was set then.
C7_DebugFlagsReplace ==
    /\ DebugFlagsAreLastArgument
    /\ SetThenCleared =>
          /\ mapState.debug = 0
          /\ trail[1].pre.debug = 0 => SameAsBeforeSet

\* flags were set on a map without flags and then cleared again
C7_Witness ==
    /\ SetThenCleared
    /\ trail[1].pre.debug = 0 /\ trail[1].arg # 0

C9_SetStyleUrlReplaces ==
    (pc = "live" /\ styleArgs # <<>>) =>
        /\ mapState.style = styleArgs[Len(styleArgs)]
        /\ (Last.op = "render" /\ Last.outcome = "image") =>
              /\ Last.value.idat.style = styleArgs[Len(styleArgs)]
              /\ (Len(styleArgs) = 2 /\ styleArgs[1] # styleArgs[2]) =>
                    Last.value.idat.style # styleArgs[1]

\* an image was rendered after a second setStyleUrl with a different URL
C9_Witness ==
    /\ pc = "live" /\ Len(styleArgs) = 2 /\ styleArgs[1] # styleArgs[2]
    /\ trail # <<>> /\ Last.op = "render" /\ Last.outcome = "image"

\* what a live instance owns
OwnsOneOfEach ==
    /\ selfFrontend # NULL /\ selfMap # NULL
    /\ aliveFrontends = {selfFrontend}
    /\ aliveMaps = {selfMap}
    /\ runLoop = "alive"
    /\ mapState.frontend = selfFrontend
    /\ frontendState.size = <<args.width, args.height>>
    /\ frontendState.pixelRatio = args.pixelRatio
    /\ mapState.options.size = <<args.width, args.height>>
    /\ mapState.options.pixelRatio = args.pixelRatio
    /\ mapState.options.mapMode = args.mapMode

\* what a control call may change
ControlStep ==
    (pc = "live" /\ pc' = "live") =>
        /\ selfFrontend' = selfFrontend /\ selfMap' = selfMap
        /\ aliveFrontends' = aliveFrontends /\ aliveMaps' = aliveMaps
        /\ frontendState' = frontendState
        /\ mapState'.frontend = mapState.frontend
        /\ mapState'.options = mapState.options
        /\ mapState'.resources = mapState.resources
        /\ trail'[Len(trail')].op = "render" =>
              CameraStyleDebug(mapState') = CameraStyleDebug(mapState)
        /\ trail'[Len(trail')].op = "setCamera" =>
              mapState' = [mapState EXCEPT !.camera = mapState'.camera]
        /\ trail'[Len(trail')].op = "setStyleUrl" =>
              /\ mapState'.camera = mapState.camera
              /\ mapState'.debug = mapState.debug
        /\ trail'[Len(trail')].op = "setDebugFlags" =>
              mapState' = [mapState EXCEPT !.debug = mapState'.debug]

\* C10: between creation and destruction the instance owns exactly one
\* frontend and one map bound to it; no control call changes them, their
\* binding, or size, pixel ratio and mode, and each mutator changes only its
\* own component of the map state.
C10_OwnershipStable ==
    /\ [](pc = "live" => OwnsOneOfEach)
    /\ [][ControlStep]_vars

\* a style was loaded into a map whose camera and debug flags had been set
C10_Witness ==
    /\ pc = "live" /\ trail # <<>> /\ Last.op = "setStyleUrl"
    /\ mapState.camera # NoCamera /\ mapState.debug # 0
    /\ mapState.style # Last.pre.style
    /\ OwnsOneOfEach

====
